---- MODULE Spec2Model ----
(***************************************************************************)
(* Model of polymarket-rs order construction and market-price walking.     *)
(*                                                                         *)
(*   src/src/orders/price.rs    calculate_market_price                     *)
(*   src/src/orders/builder.rs  OrderBuilder, generate_seed                *)
(*   src/src/types/order.rs     OrderArgs, ExtraOrderArgs, ...             *)
(*   src/src/types/enums.rs     Side, SignatureType                        *)
(*                                                                         *)
(* Decimal values (rust_decimal::Decimal) are non-negative here and are    *)
(* held either as integers counted in a fixed unit (the order book: price  *)
(* units and size units) or as records [m, s] standing for m / 10^s (the   *)
(* amount scaler, where the number of fractional digits matters).          *)
(***************************************************************************)
EXTENDS Integers, Sequences, FiniteSets

VARIABLES
    \* ---- calculate_market_price (price.rs) ----
    positions,        \* the caller's slice of PriceLevel
    shares_to_match,  \* Decimal, in size units
    side,             \* Side of the market order
    price_result,     \* what the call returned, NoResult before the call
    book,             \* OrderBookSummary {bids, asks}
    \* ---- get_order_amounts / get_market_order_amounts (builder.rs) ----
    amt_side,         \* Side
    amt_size,         \* Decimal: size (limit order) or amount (market order)
    amt_price,        \* Decimal
    round_config,     \* &RoundConfig {price, size, amount}
    amounts,          \* the (maker, taker) pair returned, NoResult before
    \* ---- OrderBuilder::create_order / create_market_order (builder.rs) ----
    new_args,         \* the arguments OrderBuilder::new was called with
    builder,          \* OrderBuilder {signer, sig_type, funder}
    chain_id,         \* u64
    order_args,       \* OrderArgs / MarketOrderArgs {token_id, price, size, side}
    expiration,       \* u64, the argument of create_order
    extras,           \* ExtraOrderArgs {fee_rate_bps, nonce, taker}
    options,          \* CreateOrderOptions {tick_size, neg_risk}
    u32_cast,         \* what the build's Decimal -> u32 conversion does past u32::MAX
    last_call,        \* the latest order-creation call and what it returned
    prev_call,        \* the call before it: its operation and the salt it drew
    \* ---- order-creation calls in flight on one shared &OrderBuilder ----
    calls,            \* per caller: where its call stands and what it holds
    seeds,            \* the `seed` local of build_signed_order, per stack slot
    \* ---- methods of the types (types/enums.rs, types/market.rs, request/pagination.rs) ----
    type_call,        \* the method called and its receiver and arguments
    type_result       \* what it returned, NoResult before the call

price_vars == <<positions, shares_to_match, side, price_result, book>>
amount_vars == <<amt_side, amt_size, amt_price, round_config, amounts>>

type_vars == <<type_call, type_result>>

order_inputs == <<new_args, builder, chain_id, order_args, expiration, extras, options, u32_cast>>
order_vars == <<new_args, builder, chain_id, order_args, expiration, extras, options, u32_cast,
                last_call, prev_call, calls, seeds>>

vars == <<positions, shares_to_match, side, price_result, book,
          amt_side, amt_size, amt_price, round_config, amounts,
          new_args, builder, chain_id, order_args, expiration, extras, options, u32_cast,
          last_call, prev_call, calls, seeds, type_call, type_result>>

(***************************************************************************)
(* Bounds of the model.                                                    *)
(***************************************************************************)
MaxLevels == 3      \* longest list of price levels
MaxPrice  == 2      \* prices are 1..MaxPrice price units
MaxSize   == 2      \* sizes are 0..MaxSize size units
MaxShares == 6      \* shares_to_match is 0..MaxShares size units
MaxBookLevels == 1  \* longest side of an OrderBookSummary
MaxMantissa == 16   \* Decimal inputs of the scaler are m / 10^s, m in 0..MaxMantissa
MaxScale  == 2      \*   and s in 0..MaxScale
MaxDp     == 1      \* price, size and amount decimals of a RoundConfig are 0..MaxDp
MaxExpiration == 1  \* the expiration argument is 0..MaxExpiration
MaxNonce  == 1      \* extras.nonce is 0..MaxNonce
MaxFee    == 1      \* extras.fee_rate_bps is 0..MaxFee
MaxTime   == 2      \* the clock reads 1..MaxTime seconds
RngDenominator == 2 \* the random fraction is n / RngDenominator, 0 <= n < RngDenominator
MaxTokenId == 7     \* decimal strings of 0..MaxTokenId parse as token ids,
MaxLeadingZeros == 1  \*   with up to MaxLeadingZeros zeros ahead of them

(***************************************************************************)
(* Generic helpers.                                                        *)
(***************************************************************************)
Min(a, b) == IF a <= b THEN a ELSE b
Max(a, b) == IF a >= b THEN a ELSE b

RECURSIVE SumSeq(_, _)
\* Sum of F[i] over the indices 1..n of a function F
SumSeq(F, n) == IF n = 0 THEN 0 ELSE F[n] + SumSeq(F, n - 1)

RECURSIVE SumSet(_, _)
\* Sum of F[x] over the finite set S
SumSet(F, S) ==
    IF S = {} THEN 0
    ELSE LET x == CHOOSE y \in S : TRUE IN F[x] + SumSet(F, S \ {x})

NoResult == [kind |-> "None"]

(***************************************************************************)
(* types/enums.rs: Side                                                    *)
(***************************************************************************)
Buy  == "Buy"
Sell == "Sell"
Side == {Buy, Sell}

(***************************************************************************)
(* types/order.rs: PriceLevel                                              *)
(***************************************************************************)
PriceLevel == [price : 1..MaxPrice, size : 0..MaxSize]

Level(p, s) == [price |-> p, size |-> s]

(***************************************************************************)
(* orders/price.rs: calculate_market_price                                 *)
(***************************************************************************)

\* The comparator handed to sort_by: TRUE when b must go before a, that is
\* when cmp(a, b) is Greater. Buy: a.price.cmp(&b.price); Sell: the reverse.
CmpInputOrder(sd, a, b) == FALSE
CmpGreater(sd, a, b) ==
    IF sd = Buy THEN a.price > b.price ELSE b.price > a.price

RECURSIVE InsertSorted(_, _, _)
\* Stable insertion of x into the sorted sequence s: x goes after every
\* element it does not strictly precede (slice::sort_by is a stable sort).
InsertSorted(sd, s, x) ==
    IF s = <<>> THEN <<x>>
    ELSE LET last == s[Len(s)] IN
         IF CmpGreater(sd, last, x)
         THEN Append(InsertSorted(sd, SubSeq(s, 1, Len(s) - 1), x), last)
         ELSE Append(s, x)

RECURSIVE SortPrefix(_, _, _)
SortPrefix(sd, s, n) ==
    IF n = 0 THEN <<>> ELSE InsertSorted(sd, SortPrefix(sd, s, n - 1), s[n])

\* let positions = match side { Buy => asks sorted ascending,
\*                               Sell => bids sorted descending }
SortedCopyAscending(ps, sd) == SortPrefix(Buy, ps, Len(ps))
SortedCopy(ps, sd) == SortPrefix(sd, ps, Len(ps))

\* let filled = remaining.min(p.size);
FilledWhole(remaining, p) == p.size
Filled(remaining, p) == Min(remaining, p.size)

\* Ok(total_cost / shares_to_match): the quotient is kept as the exact ratio
\* num/den; Decimal division by zero panics.
TotalCostUndivided(total_cost, shares) ==
    IF shares = 0 THEN [kind |-> "Panic", what |-> "Division by zero"]
    ELSE [kind |-> "Ok", num |-> total_cost, den |-> 1]
Quotient(total_cost, shares) ==
    IF shares = 0 THEN [kind |-> "Panic", what |-> "Division by zero"]
    ELSE [kind |-> "Ok", num |-> total_cost, den |-> shares]

\* Err(Error::InvalidOrder(format!("Not enough liquidity to create market
\* order with amount {}", shares_to_match)))
PartialFillPrice(total_cost, remaining, shares) ==
    IF shares = remaining THEN [kind |-> "Err", error |-> "InvalidOrder",
                                 text |-> "Not enough liquidity", amount |-> shares]
    ELSE [kind |-> "Ok", num |-> total_cost, den |-> shares - remaining]
NotEnoughLiquidity(total_cost, remaining, shares) ==
    [kind |-> "Err", error |-> "InvalidOrder",
     text |-> "Not enough liquidity", amount |-> shares]

RECURSIVE Walk(_, _, _, _, _)
\* for p in positions { ... }  from index i on
Walk(ps, i, remaining, total_cost, shares) ==
    IF i > Len(ps) THEN NotEnoughLiquidity(total_cost, remaining, shares)
    ELSE LET filled == Filled(remaining, ps[i])
             cost   == total_cost + filled * ps[i].price
             rem    == remaining - filled
         IN  IF rem = 0 THEN Quotient(cost, shares)
             ELSE Walk(ps, i + 1, rem, cost, shares)

calculate_market_price_unsorted(ps, shares, sd) ==
    Walk(ps, 1, shares, 0, shares)
calculate_market_price(ps, shares, sd) ==
    Walk(SortedCopy(ps, sd), 1, shares, 0, shares)

(***************************************************************************)
(* rust_decimal::Decimal as used by the amount scaler: [m, s] is m / 10^s. *)
(***************************************************************************)
RECURSIVE Pow10(_)
Pow10(n) == IF n = 0 THEN 1 ELSE 10 * Pow10(n - 1)

Dec(m, s) == [m |-> m, s |-> s]

\* Decimal * Decimal: mantissas multiply, scales add
DecMul(a, b) == [m |-> a.m * b.m, s |-> a.s + b.s]

\* Decimal::round_dp_with_strategy(dp, strategy): a value with no more than
\* dp fractional digits is returned as it is; otherwise the digits past dp
\* are dropped and the strategy decides whether the last kept digit goes up.
round_dp_with_strategy(d, dp, strategy) ==
    IF d.s <= dp THEN d
    ELSE LET f == Pow10(d.s - dp)
             q == d.m \div f
             r == d.m % f
         IN  [m |-> IF strategy = "MidpointTowardZero" /\ 2 * r > f THEN q + 1 ELSE q,
              s |-> dp]

(***************************************************************************)
(* orders/rounding.rs is not among the source files: RoundConfig,          *)
(* fix_amount_rounding and decimal_to_token_u32 follow the specification   *)
(* (section 4.2): the product is re-rounded at amount decimals with the    *)
(* midpoint-toward-zero rule, then scaled to the integer token amount.     *)
(***************************************************************************)
TokenDecimals == 6

RoundConfig == [price : 0..MaxDp, size : 0..MaxDp, amount : 0..MaxDp]

fix_amount_rounding(amt, cfg) ==
    round_dp_with_strategy(amt, cfg.amount, "MidpointTowardZero")

\* u32::MAX = 4294967295 token units = U32MaxWhole whole tokens and
\* U32MaxMicro units more; the result type of get_order_amounts is (u32, u32)
U32MaxWhole == 4294
U32MaxMicro == 967295

WholeTokens(amt) == amt.m \div Pow10(amt.s)
MicroTokens(amt) == (amt.m % Pow10(amt.s)) * Pow10(TokenDecimals - amt.s)

\* the amount times 10^TokenDecimals is above u32::MAX
ExceedsU32(amt) ==
    \/ WholeTokens(amt) > U32MaxWhole
    \/ WholeTokens(amt) = U32MaxWhole /\ MicroTokens(amt) > U32MaxMicro

\* the low 32 bits of an amount in u32::MAX + 1 .. 2 * u32::MAX + 1
WrappedU32(amt) ==
    (WholeTokens(amt) - U32MaxWhole) * Pow10(TokenDecimals)
        + MicroTokens(amt) - (U32MaxMicro + 1)

\* A conversion that returns a plain u32 has no error to return for an amount
\* past u32::MAX: it either aborts the call or returns another number
U32Cast == {"panic", "wrap"}
Panicked == 0 - 1

\* the Decimal as an integer count of 10^-TokenDecimals
decimal_to_token_u32(amt) ==
    IF ExceedsU32(amt)
    THEN IF u32_cast = "wrap" THEN WrappedU32(amt) ELSE Panicked
    ELSE amt.m * Pow10(TokenDecimals - amt.s)

(***************************************************************************)
(* Option, Result, strings and addresses.                                  *)
(***************************************************************************)
None == [some |-> FALSE]
Some(v) == [some |-> TRUE, v |-> v]

Ok(v) == [kind |-> "Ok", v |-> v]
Err(error, text) == [kind |-> "Err", error |-> error, text |-> text]

DigitChars == <<"0", "1", "2", "3", "4", "5", "6", "7", "8", "9">>

RECURSIVE to_string(_)
\* u32/u64/U256 ::to_string(): the decimal digits, most significant first
to_string(n) ==
    IF n < 10 THEN DigitChars[n + 1]
    ELSE to_string(n \div 10) \o DigitChars[(n % 10) + 1]

RECURSIVE Zeros(_)
Zeros(k) == IF k = 0 THEN "" ELSE "0" \o Zeros(k - 1)

\* U256::from_str_radix(s, 10): the digits are accumulated from the left,
\* so zeros ahead of the number are accepted and change nothing
DecimalStrings ==
    {<<Zeros(k) \o to_string(n), n>> : n \in 0..MaxTokenId, k \in 0..MaxLeadingZeros}

U256FromStrRadix10(s) ==
    IF \E p \in DecimalStrings : p[1] = s
    THEN Some((CHOOSE p \in DecimalStrings : p[1] = s)[2])
    ELSE None

\* alloy_primitives::Address: a 20-byte value, named here by two hex digits.
\* Address::from_str reads the hex digits in either letter case;
\* to_checksum(None) writes them in the checksum's mixed case.
Address == {"00", "ab", "cd", "e1", "e2"}

AddressFromStr(s) ==
    CASE s = "0x00" -> Some("00")
      [] s \in {"0xab", "0xAb"} -> Some("ab")
      [] s \in {"0xcd", "0xCd"} -> Some("cd")
      [] s \in {"0xe1", "0xE1"} -> Some("e1")
      [] s \in {"0xe2", "0xE2"} -> Some("e2")
      [] OTHER -> None

to_checksum(a) ==
    CASE a = "00" -> "0x00"
      [] a = "ab" -> "0xAb"
      [] a = "cd" -> "0xCd"
      [] a = "e1" -> "0xE1"
      [] a = "e2" -> "0xE2"

\* types/order.rs: const ZERO_ADDRESS
ZERO_ADDRESS == "0x00"

(***************************************************************************)
(* types/enums.rs: Side and SignatureType encodings                        *)
(***************************************************************************)
SideToU8(sd) == IF sd = Buy THEN 0 ELSE 1
SideAsStrDefault(sd) == "BUY"
SideAsStr(sd) == IF sd = Buy THEN "BUY" ELSE "SELL"

Returned(v) == [kind |-> "Returned", v |-> v]

\* No method of the types called
TypesIdle ==
    /\ type_call = [fn |-> "none"]
    /\ type_result = NoResult

Eoa == "Eoa"
PolyProxy == "PolyProxy"
PolyGnosisSafe == "PolyGnosisSafe"
SignatureType == {Eoa, PolyProxy, PolyGnosisSafe}

SignatureTypeToU8(t) ==
    CASE t = Eoa -> 0 [] t = PolyProxy -> 1 [] t = PolyGnosisSafe -> 2

\* u8::MAX
U8Max == 255

\* SignatureType::from_u8
SignatureTypeFromU8Swapped(value) ==
    CASE value = 0 -> Some(Eoa)
      [] value = 1 -> Some(PolyGnosisSafe)
      [] value = 2 -> Some(PolyProxy)
      [] OTHER -> None
SignatureTypeFromU8(value) ==
    CASE value = 0 -> Some(Eoa)
      [] value = 1 -> Some(PolyProxy)
      [] value = 2 -> Some(PolyGnosisSafe)
      [] OTHER -> None

(***************************************************************************)
(* Collaborators that are not among the source files, after sections 4.1,  *)
(* 4.4, 4.5 and 6 of the specification: the tick-size table, the contract  *)
(* registry, the clock and the signer.                                     *)
(***************************************************************************)
DecEq(a, b) == a.m * Pow10(b.s) = b.m * Pow10(a.s)

\* ROUNDING_CONFIG: the supported tick sizes 0.1, 0.01, 0.001 and 0.0001
RoundingTicks == {Dec(1, 1), Dec(1, 2), Dec(1, 3), Dec(1, 4)}
RoundingConfigOf(tick) == [price |-> tick.s, size |-> 2, amount |-> tick.s + 2]

\* ROUNDING_CONFIG.get(&tick_size)
ROUNDING_CONFIG_get(tick_size) ==
    IF \E t \in RoundingTicks : DecEq(t, tick_size)
    THEN Some(RoundingConfigOf(CHOOSE t \in RoundingTicks : DecEq(t, tick_size)))
    ELSE None

\* get_contract_config(chain_id, neg_risk): chain 137 has both exchanges,
\* chain 80002 has the plain exchange and a malformed neg-risk entry, and
\* no other chain has an entry.
get_contract_config(chain, neg_risk) ==
    CASE chain = 137 -> Ok([exchange |-> IF neg_risk THEN "0xe2" ELSE "0xe1"])
      [] chain = 80002 -> Ok([exchange |-> IF neg_risk THEN "0xzz" ELSE "0xe1"])
      [] OTHER -> Err("Config", "no contract config")

\* get_current_unix_time_secs(): the clock's reading, or its failure
Clock == {Ok(t) : t \in 1..MaxTime} \cup {Err("SystemTime", "clock")}

\* sign_order_message(signer, order, chain_id, exchange): what the signer
\* capability answers for the typed data, or the signer's failure
sign_order_message(signer, order, chain, exchange, answer) ==
    IF answer = "fail" THEN Err("Signing", "signer failure")
    ELSE Ok([by |-> signer, order |-> order, chain_id |-> chain,
             verifyingContract |-> exchange])

\* What one call meets outside its arguments: the clock's reading, the
\* random fraction y = rng / RngDenominator, and the signer's answer.
Environment == [time : Clock, rng : 0..(RngDenominator - 1), sign : {"ok", "fail"}]

(***************************************************************************)
(* orders/builder.rs: get_order_amounts, get_market_order_amounts          *)
(***************************************************************************)
Pair(maker, taker) == [maker |-> maker, taker |-> taker]

\* Side::Buy arm of get_order_amounts
BuyAmountsSizeRounded(size, raw_price, cfg) ==
    LET raw_taker_amt == round_dp_with_strategy(size, cfg.size, "MidpointTowardZero")
        raw_maker_amt == fix_amount_rounding(DecMul(raw_taker_amt, raw_price), cfg)
    IN  Pair(decimal_to_token_u32(raw_maker_amt), decimal_to_token_u32(raw_taker_amt))
BuyAmounts(size, raw_price, cfg) ==
    LET raw_taker_amt == round_dp_with_strategy(size, cfg.size, "ToZero")
        raw_maker_amt == fix_amount_rounding(DecMul(raw_taker_amt, raw_price), cfg)
    IN  Pair(decimal_to_token_u32(raw_maker_amt), decimal_to_token_u32(raw_taker_amt))

\* Side::Sell arm of get_order_amounts
SellAmountsUncorrected(size, raw_price, cfg) ==
    LET raw_maker_amt == round_dp_with_strategy(size, cfg.size, "ToZero")
        raw_taker_amt == round_dp_with_strategy(DecMul(raw_maker_amt, raw_price),
                                                cfg.amount, "ToZero")
    IN  Pair(decimal_to_token_u32(raw_maker_amt), decimal_to_token_u32(raw_taker_amt))
SellAmounts(size, raw_price, cfg) ==
    LET raw_maker_amt == round_dp_with_strategy(size, cfg.size, "ToZero")
        raw_taker_amt == fix_amount_rounding(DecMul(raw_maker_amt, raw_price), cfg)
    IN  Pair(decimal_to_token_u32(raw_maker_amt), decimal_to_token_u32(raw_taker_amt))

get_order_amounts_price_unrounded(sd, size, price, cfg) ==
    IF sd = Buy THEN BuyAmounts(size, price, cfg) ELSE SellAmounts(size, price, cfg)
get_order_amounts(sd, size, price, cfg) ==
    LET raw_price == round_dp_with_strategy(price, cfg.price, "MidpointTowardZero")
    IN  IF sd = Buy THEN BuyAmounts(size, raw_price, cfg)
        ELSE SellAmounts(size, raw_price, cfg)

\* Side::Buy and Side::Sell arms of get_market_order_amounts
MarketBuyAmountsAsCash(amount, raw_price, cfg) ==
    LET raw_maker_amt == round_dp_with_strategy(amount, cfg.size, "ToZero")
        raw_taker_amt == fix_amount_rounding(DecMul(raw_maker_amt, raw_price), cfg)
    IN  Pair(decimal_to_token_u32(raw_maker_amt), decimal_to_token_u32(raw_taker_amt))
MarketBuyAmounts(amount, raw_price, cfg) ==
    LET raw_taker_amt == round_dp_with_strategy(amount, cfg.size, "ToZero")
        raw_maker_amt == fix_amount_rounding(DecMul(raw_taker_amt, raw_price), cfg)
    IN  Pair(decimal_to_token_u32(raw_maker_amt), decimal_to_token_u32(raw_taker_amt))

MarketSellAmounts(amount, raw_price, cfg) ==
    LET raw_maker_amt == round_dp_with_strategy(amount, cfg.size, "ToZero")
        raw_taker_amt == fix_amount_rounding(DecMul(raw_maker_amt, raw_price), cfg)
    IN  Pair(decimal_to_token_u32(raw_maker_amt), decimal_to_token_u32(raw_taker_amt))

get_market_order_amounts(sd, amount, price, cfg) ==
    LET raw_price == round_dp_with_strategy(price, cfg.price, "MidpointTowardZero")
    IN  IF sd = Buy THEN MarketBuyAmounts(amount, raw_price, cfg)
        ELSE MarketSellAmounts(amount, raw_price, cfg)

(***************************************************************************)
(* orders/builder.rs: generate_seed, OrderBuilder                          *)
(***************************************************************************)

\* let y: f64 = rng.gen(); let a = timestamp as f64 * y; Ok(a as u64)
generate_seed_sum(time, rng) ==
    IF time.kind = "Err" THEN time
    ELSE Ok((time.v * RngDenominator + rng) \div RngDenominator)
generate_seed(time, rng) ==
    IF time.kind = "Err" THEN time
    ELSE Ok((time.v * rng) \div RngDenominator)

\* OrderBuilder::new(signer, sig_type, funder)
OrderBuilder_new_zero_funder(signer, sig_type, funder) ==
    [signer   |-> signer,
     sig_type |-> IF sig_type.some THEN sig_type.v ELSE Eoa,
     funder   |-> IF funder.some THEN funder.v ELSE "00"]
OrderBuilder_new(signer, sig_type, funder) ==
    [signer   |-> signer,
     sig_type |-> IF sig_type.some THEN sig_type.v ELSE Eoa,
     funder   |-> IF funder.some THEN funder.v ELSE signer]

\* What a call did: the value returned, the collaborators it invoked, in
\* order, and the Orders it handed to the signer.
Outcome(result, effects, signed) ==
    [result |-> result, effects |-> effects, signed |-> signed]

\* nonce: extras.nonce
NonceDefault(ex) == 0
Nonce(ex) == ex.nonce

\* sign_order_message(..)?: the signer's failure is the answer of the call
SigningFailureRetried(signature, order) ==
    Outcome(signature,
            <<"generate_seed", "sign_order_message", "generate_seed", "sign_order_message">>,
            <<order, order>>)
SigningFailure(signature, order) ==
    Outcome(signature, <<"generate_seed", "sign_order_message">>, <<order>>)

\* OrderBuilder::build_signed_order once the seed is drawn
build_signed_order_from_seed(b, token_id, sd, chain, exchange, maker_amount, taker_amount, exp, ex, seed, answer) ==
    LET taker_address == AddressFromStr(ex.taker) IN
    IF ~taker_address.some
    THEN Outcome(Err("InvalidParameter", "Invalid taker address"), <<"generate_seed">>, <<>>)
    ELSE
    LET u256_token_id == U256FromStrRadix10(token_id) IN
    IF ~u256_token_id.some
    THEN Outcome(Err("InvalidParameter", "Invalid token_id"), <<"generate_seed">>, <<>>)
    ELSE
    LET order == [salt          |-> seed,
                  maker         |-> b.funder,
                  signer        |-> b.signer,
                  taker         |-> taker_address.v,
                  tokenId       |-> u256_token_id.v,
                  makerAmount   |-> maker_amount,
                  takerAmount   |-> taker_amount,
                  expiration    |-> exp,
                  nonce         |-> Nonce(ex),
                  feeRateBps    |-> ex.fee_rate_bps,
                  side          |-> SideToU8(sd),
                  signatureType |-> SignatureTypeToU8(b.sig_type)]
        signature == sign_order_message(b.signer, order, chain, exchange, answer)
    IN
    IF signature.kind = "Err" THEN SigningFailure(signature, order)
    ELSE Outcome(
           Ok([salt           |-> seed,
               maker          |-> to_checksum(b.funder),
               signer         |-> to_checksum(b.signer),
               taker          |-> to_checksum(taker_address.v),
               token_id       |-> token_id,
               maker_amount   |-> to_string(maker_amount),
               taker_amount   |-> to_string(taker_amount),
               expiration     |-> to_string(exp),
               nonce          |-> to_string(Nonce(ex)),
               fee_rate_bps   |-> to_string(ex.fee_rate_bps),
               side           |-> SideAsStr(sd),
               signature_type |-> SignatureTypeToU8(b.sig_type),
               signature      |-> signature.v]),
           <<"generate_seed", "sign_order_message">>, <<order>>)

\* OrderBuilder::build_signed_order
build_signed_order_taker_first(b, token_id, sd, chain, exchange, maker_amount, taker_amount, exp, ex, env) ==
    LET seed == generate_seed(env.time, env.rng) IN
    IF ~AddressFromStr(ex.taker).some
    THEN Outcome(Err("InvalidParameter", "Invalid taker address"), <<>>, <<>>)
    ELSE IF seed.kind = "Err" THEN Outcome(seed, <<"generate_seed">>, <<>>)
    ELSE build_signed_order_from_seed(b, token_id, sd, chain, exchange, maker_amount,
                                      taker_amount, exp, ex, seed.v, env.sign)
build_signed_order(b, token_id, sd, chain, exchange, maker_amount, taker_amount, exp, ex, env) ==
    LET seed == generate_seed(env.time, env.rng) IN
    IF seed.kind = "Err" THEN Outcome(seed, <<"generate_seed">>, <<>>)
    ELSE build_signed_order_from_seed(b, token_id, sd, chain, exchange, maker_amount,
                                      taker_amount, exp, ex, seed.v, env.sign)

\* options.tick_size.ok_or_else(|| Error::MissingField("tick_size"))
TickSizeOf(opts) ==
    IF opts.tick_size.some THEN Ok(opts.tick_size.v) ELSE Err("MissingField", "tick_size")

\* options.neg_risk.ok_or_else(|| Error::MissingField("neg_risk"))
NegRiskOrDefault(opts) ==
    IF opts.neg_risk.some THEN Ok(opts.neg_risk.v) ELSE Ok(FALSE)
NegRiskOf(opts) ==
    IF opts.neg_risk.some THEN Ok(opts.neg_risk.v) ELSE Err("MissingField", "neg_risk")

\* ROUNDING_CONFIG.get(&tick_size).ok_or_else(|| Error::InvalidParameter(..))
RoundConfigOrCoarsest(tick_size) ==
    LET c == ROUNDING_CONFIG_get(tick_size) IN
    IF c.some THEN Ok(c.v) ELSE Ok(RoundingConfigOf(Dec(1, 1)))
RoundConfigOf(tick_size) ==
    LET c == ROUNDING_CONFIG_get(tick_size) IN
    IF c.some THEN Ok(c.v) ELSE Err("InvalidParameter", "Invalid tick_size")

\* get_contract_config(chain_id, neg_risk)? and
\* Address::from_str(&contract_config.exchange).map_err(Error::Config)
ExchangeAddressInvalidParameter(chain, neg_risk) ==
    LET contract_config == get_contract_config(chain, neg_risk) IN
    IF contract_config.kind = "Err" THEN contract_config
    ELSE LET a == AddressFromStr(contract_config.v.exchange) IN
         IF a.some THEN Ok(a.v) ELSE Err("InvalidParameter", "Invalid exchange address")
ExchangeAddressOf(chain, neg_risk) ==
    LET contract_config == get_contract_config(chain, neg_risk) IN
    IF contract_config.kind = "Err" THEN contract_config
    ELSE LET a == AddressFromStr(contract_config.v.exchange) IN
         IF a.some THEN Ok(a.v) ELSE Err("Config", "Invalid exchange address")

\* build_signed_order(.., 0, extras): market orders have 0 expiration
MarketExpirationFromCaller == expiration
MarketExpiration == 0

\* a panic inside the scaler unwinds through the caller, which has no `?`
\* or match on the returned pair
ScalerPanic == [kind |-> "Panic", what |-> "amount does not fit u32"]
Aborted(amts) == amts.maker = Panicked \/ amts.taker = Panicked

Prepend(effect, o) == Outcome(o.result, <<effect>> \o o.effects, o.signed)

\* OrderBuilder::create_market_order
create_market_order(b, chain, args, price, ex, opts, env) ==
    LET tick_size == TickSizeOf(opts) IN
    IF tick_size.kind = "Err" THEN Outcome(tick_size, <<>>, <<>>) ELSE
    LET neg_risk == NegRiskOf(opts) IN
    IF neg_risk.kind = "Err" THEN Outcome(neg_risk, <<>>, <<>>) ELSE
    LET cfg == RoundConfigOf(tick_size.v) IN
    IF cfg.kind = "Err" THEN Outcome(cfg, <<>>, <<>>) ELSE
    LET amts == get_market_order_amounts(args.side, args.size, price, cfg.v) IN
    IF Aborted(amts) THEN Outcome(ScalerPanic, <<>>, <<>>) ELSE
    LET exchange_address == ExchangeAddressOf(chain, neg_risk.v) IN
    IF exchange_address.kind = "Err"
    THEN Outcome(exchange_address, <<"get_contract_config">>, <<>>)
    ELSE Prepend("get_contract_config",
                 build_signed_order(b, args.token_id, args.side, chain, exchange_address.v,
                                    amts.maker, amts.taker, MarketExpiration, ex, env))

\* OrderBuilder::create_order
create_order_without_expiration(b, chain, args, exp, ex, opts, env) ==
    create_market_order(b, chain, args, args.price, ex, opts, env)
create_order(b, chain, args, exp, ex, opts, env) ==
    LET tick_size == TickSizeOf(opts) IN
    IF tick_size.kind = "Err" THEN Outcome(tick_size, <<>>, <<>>) ELSE
    LET neg_risk == NegRiskOf(opts) IN
    IF neg_risk.kind = "Err" THEN Outcome(neg_risk, <<>>, <<>>) ELSE
    LET cfg == RoundConfigOf(tick_size.v) IN
    IF cfg.kind = "Err" THEN Outcome(cfg, <<>>, <<>>) ELSE
    LET amts == get_order_amounts(args.side, args.size, args.price, cfg.v) IN
    IF Aborted(amts) THEN Outcome(ScalerPanic, <<>>, <<>>) ELSE
    LET exchange_address == ExchangeAddressOf(chain, neg_risk.v) IN
    IF exchange_address.kind = "Err"
    THEN Outcome(exchange_address, <<"get_contract_config">>, <<>>)
    ELSE Prepend("get_contract_config",
                 build_signed_order(b, args.token_id, args.side, chain, exchange_address.v,
                                    amts.maker, amts.taker, exp, ex, env))

(***************************************************************************)
(* The order builder as a state machine: one builder and one set of call   *)
(* arguments are drawn at the start; create_order and create_market_order  *)
(* are then called on them any number of times, each call meeting its own  *)
(* clock reading, random draw and signer answer.                           *)
(***************************************************************************)
NoCall == [op |-> "none"]

Call(op, o) ==
    [op |-> op, result |-> o.result, effects |-> o.effects, signed |-> o.signed]

\* What is kept of a call once the next one is made
Earlier(call) ==
    IF call = NoCall THEN NoCall
    ELSE [op |-> call.op,
          salt |-> IF call.result.kind = "Ok" THEN Some(call.result.v.salt) ELSE None]

\* The threads that hold the same &OrderBuilder
Callers == {"a", "b"}

\* A call not yet made: the environment fields hold what the call has met so
\* far (nothing yet)
IdleCall ==
    [pc |-> "idle", op |-> "create_order", side |-> Buy,
     time |-> Ok(1), rng |-> 0, sign |-> "ok", prep |-> NoResult, result |-> NoResult]

NoneInFlight ==
    /\ calls = [t \in Callers |-> IdleCall]
    /\ seeds = [t \in Callers |-> None]

NewArgs(signer, sig_type, funder) ==
    [signer |-> signer, sig_type |-> sig_type, funder |-> funder]

\* the builder OrderBuilder::new makes of the arguments drawn
Constructed == builder = OrderBuilder_new(new_args.signer, new_args.sig_type, new_args.funder)

OrderIdle ==
    /\ new_args = NewArgs("ab", None, None)
    /\ Constructed
    /\ chain_id = 137
    /\ order_args = [token_id |-> "7", price |-> Dec(0, 0), size |-> Dec(0, 0), side |-> Buy]
    /\ expiration = 0
    /\ extras = [fee_rate_bps |-> 0, nonce |-> 0, taker |-> ZERO_ADDRESS]
    /\ options = [tick_size |-> None, neg_risk |-> None]
    /\ u32_cast = "panic"
    /\ last_call = NoCall
    /\ prev_call = NoCall
    /\ NoneInFlight

CreateOrder ==
    \E env \in Environment :
        /\ last_call' = Call("create_order",
                             create_order(builder, chain_id, order_args, expiration,
                                          extras, options, env))
        /\ prev_call' = Earlier(last_call)
        /\ UNCHANGED order_inputs
        /\ UNCHANGED <<calls, seeds>>
        /\ UNCHANGED <<price_vars, amount_vars, type_vars>>

CreateMarketOrder ==
    \E env \in Environment :
        /\ last_call' = Call("create_market_order",
                             create_market_order(builder, chain_id, order_args,
                                                 order_args.price, extras, options, env))
        /\ prev_call' = Earlier(last_call)
        /\ UNCHANGED order_inputs
        /\ UNCHANGED <<calls, seeds>>
        /\ UNCHANGED <<price_vars, amount_vars, type_vars>>

(***************************************************************************)
(* Calls in flight on one shared builder. A call runs in three steps: the  *)
(* checks and the scaling up to the exchange address (it reads its         *)
(* arguments and the registry), the seed (it reads the clock and the       *)
(* thread's random source into the local `seed`), and the rest of          *)
(* build_signed_order (it reads &self and asks the signer). Steps of       *)
(* different callers interleave freely.                                    *)
(***************************************************************************)
\* create_order / create_market_order up to the call of build_signed_order
Prepared(b, chain, op, args, price, exp, opts) ==
    LET tick_size == TickSizeOf(opts) IN
    IF tick_size.kind = "Err" THEN tick_size ELSE
    LET neg_risk == NegRiskOf(opts) IN
    IF neg_risk.kind = "Err" THEN neg_risk ELSE
    LET cfg == RoundConfigOf(tick_size.v) IN
    IF cfg.kind = "Err" THEN cfg ELSE
    LET amts == IF op = "create_order"
                THEN get_order_amounts(args.side, args.size, args.price, cfg.v)
                ELSE get_market_order_amounts(args.side, args.size, price, cfg.v) IN
    IF Aborted(amts) THEN ScalerPanic ELSE
    LET exchange_address == ExchangeAddressOf(chain, neg_risk.v) IN
    IF exchange_address.kind = "Err" THEN exchange_address
    ELSE Ok([exchange |-> exchange_address.v, maker |-> amts.maker, taker |-> amts.taker,
             expiration |-> IF op = "create_order" THEN exp ELSE MarketExpiration])

\* let seed = generate_seed()?: a local of the call, on the caller's stack
SeedSlotShared(t) == "a"
SeedSlot(t) == t

ArgsOf(t) == [order_args EXCEPT !.side = calls[t].side]

Begin(t) ==
    /\ calls[t].pc = "idle"
    /\ \E op \in {"create_order", "create_market_order"}, sd \in Side :
         LET p == Prepared(builder, chain_id, op, [order_args EXCEPT !.side = sd],
                           order_args.price, expiration, options)
         IN  calls' = [calls EXCEPT ![t] =
                         [@ EXCEPT !.op = op, !.side = sd, !.prep = p,
                                   !.pc = IF p.kind = "Ok" THEN "prepared" ELSE "done",
                                   !.result = IF p.kind = "Ok" THEN NoResult ELSE p]]
    /\ UNCHANGED <<order_inputs, last_call, prev_call, seeds>>
    /\ UNCHANGED <<price_vars, amount_vars, type_vars>>

DrawSeed(t) ==
    /\ calls[t].pc = "prepared"
    /\ \E time \in Clock, rng \in 0..(RngDenominator - 1) :
         LET seed == generate_seed(time, rng) IN
         /\ seeds' = IF seed.kind = "Ok" THEN [seeds EXCEPT ![SeedSlot(t)] = Some(seed.v)]
                      ELSE seeds
         /\ calls' = [calls EXCEPT ![t] =
                         [@ EXCEPT !.time = time, !.rng = rng,
                                   !.pc = IF seed.kind = "Ok" THEN "seeded" ELSE "done",
                                   !.result = IF seed.kind = "Ok" THEN NoResult ELSE seed]]
    /\ UNCHANGED <<order_inputs, last_call, prev_call>>
    /\ UNCHANGED <<price_vars, amount_vars, type_vars>>

Finish(t) ==
    /\ calls[t].pc = "seeded"
    /\ \E answer \in {"ok", "fail"} :
         LET c == calls[t]
             o == build_signed_order_from_seed(builder, order_args.token_id, c.side, chain_id,
                                               c.prep.v.exchange, c.prep.v.maker, c.prep.v.taker,
                                               c.prep.v.expiration, extras,
                                               seeds[SeedSlot(t)].v, answer)
         IN  calls' = [calls EXCEPT ![t] =
                         [@ EXCEPT !.sign = answer, !.pc = "done", !.result = o.result]]
    /\ UNCHANGED <<order_inputs, last_call, prev_call, seeds>>
    /\ UNCHANGED <<price_vars, amount_vars, type_vars>>

(***************************************************************************)
(* The amount scaler as a state machine: the inputs are drawn at the       *)
(* start, and either scaling path is applied to them once.                 *)
(***************************************************************************)
Decimals == [m : 0..MaxMantissa, s : 0..MaxScale]

AmountsIdle ==
    /\ amt_side = Buy
    /\ amt_size = Dec(0, 0)
    /\ amt_price = Dec(0, 0)
    /\ round_config = [price |-> 0, size |-> 0, amount |-> 0]
    /\ amounts = NoResult

GetOrderAmounts ==
    /\ amounts = NoResult
    /\ amounts' = [kind |-> "limit",
                   pair |-> get_order_amounts(amt_side, amt_size, amt_price, round_config)]
    /\ UNCHANGED <<amt_side, amt_size, amt_price, round_config>>
    /\ UNCHANGED price_vars
    /\ UNCHANGED order_vars
    /\ UNCHANGED type_vars

GetMarketOrderAmounts ==
    /\ amounts = NoResult
    /\ amounts' = [kind |-> "market",
                   pair |-> get_market_order_amounts(amt_side, amt_size, amt_price,
                                                     round_config)]
    /\ UNCHANGED <<amt_side, amt_size, amt_price, round_config>>
    /\ UNCHANGED price_vars
    /\ UNCHANGED order_vars
    /\ UNCHANGED type_vars

\* OrderBookSummary::calculate_market_price: a BUY is priced on the asks, a
\* SELL on the bids
OrderBookSummary_calculate_market_price_same_side(b, sd, shares) ==
    calculate_market_price(IF sd = Buy THEN b.bids ELSE b.asks, shares, sd)
OrderBookSummary_calculate_market_price(b, sd, shares) ==
    calculate_market_price(IF sd = Buy THEN b.asks ELSE b.bids, shares, sd)

(***************************************************************************)
(* The price walker as a state machine: the inputs are drawn at the start, *)
(* the call computes the result and leaves the caller's slice alone.       *)
(***************************************************************************)
LevelLists == UNION {[1..n -> PriceLevel] : n \in 0..MaxLevels}

EmptyBook == [bids |-> <<>>, asks |-> <<>>]

PriceIdle ==
    /\ positions = <<>>
    /\ book = EmptyBook
    /\ shares_to_match = 0
    /\ side = Buy
    /\ price_result = NoResult

InitPrice ==
    /\ TypesIdle
    /\ AmountsIdle
    /\ OrderIdle
    /\ positions \in LevelLists
    /\ book = EmptyBook
    /\ shares_to_match \in 0..MaxShares
    /\ side \in Side
    /\ price_result = NoResult

\* positions.to_vec(): the sort works on a copy, and the caller's slice is
\* borrowed immutably
PositionsSortedInPlace(ps, sd) == SortedCopy(ps, sd)
PositionsAfterCall(ps, sd) == ps

CalculateMarketPrice ==
    /\ price_result = NoResult
    /\ price_result' = calculate_market_price(positions, shares_to_match, side)
    /\ positions' = PositionsAfterCall(positions, side)
    /\ UNCHANGED <<shares_to_match, side, book>>
    /\ UNCHANGED amount_vars
    /\ UNCHANGED order_vars
    /\ UNCHANGED type_vars

NextPrice == CalculateMarketPrice

SpecPrice == InitPrice /\ [][NextPrice]_vars

\* OrderBookSummary::calculate_market_price called once on a drawn book
BookSides == UNION {[1..n -> PriceLevel] : n \in 0..MaxBookLevels}

InitBook ==
    /\ TypesIdle
    /\ AmountsIdle
    /\ OrderIdle
    /\ positions = <<>>
    /\ book \in [bids : BookSides, asks : BookSides]
    /\ shares_to_match \in 0..MaxShares
    /\ side \in Side
    /\ price_result = NoResult

BookCalculateMarketPrice ==
    /\ price_result = NoResult
    /\ price_result' = OrderBookSummary_calculate_market_price(book, side, shares_to_match)
    /\ UNCHANGED <<positions, shares_to_match, side, book>>
    /\ UNCHANGED amount_vars
    /\ UNCHANGED order_vars
    /\ UNCHANGED type_vars

NextBook == BookCalculateMarketPrice

SpecBook == InitBook /\ [][NextBook]_vars

InitAmounts ==
    /\ TypesIdle
    /\ PriceIdle
    /\ OrderIdle
    /\ amt_side \in Side
    /\ amt_size \in Decimals
    /\ amt_price \in Decimals
    /\ round_config \in RoundConfig
    /\ amounts = NoResult

NextAmounts == GetOrderAmounts \/ GetMarketOrderAmounts

SpecAmounts == InitAmounts /\ [][NextAmounts]_vars

\* The scaler under the configurations of the supported tick sizes only
InitTick ==
    /\ TypesIdle
    /\ PriceIdle
    /\ OrderIdle
    /\ amt_side \in Side
    /\ amt_size \in Decimals
    /\ amt_price \in Decimals
    /\ round_config \in {RoundingConfigOf(t) : t \in RoundingTicks}
    /\ amounts = NoResult

SpecTick == InitTick /\ [][NextAmounts]_vars

InitOrder ==
    /\ TypesIdle
    /\ PriceIdle
    /\ AmountsIdle
    /\ new_args \in {NewArgs("ab", None, None), NewArgs("ab", Some(PolyProxy), Some("cd"))}
    /\ Constructed
    /\ chain_id \in {1, 137, 80002}
    /\ order_args \in [token_id : {"7", "x"}, price : {Dec(55, 2)}, size : {Dec(15, 1)},
                        side : Side]
    /\ expiration \in 0..MaxExpiration
    /\ extras \in [fee_rate_bps : 0..MaxFee, nonce : 0..MaxNonce,
                    taker : {ZERO_ADDRESS, "0xzz"}]
    /\ options \in [tick_size : {None, Some(Dec(1, 1)), Some(Dec(5, 1))},
                     neg_risk : {None, Some(TRUE), Some(FALSE)}]
    /\ u32_cast = "panic"   \* never consulted: these amounts are far below u32::MAX
    /\ last_call = NoCall
    /\ prev_call = NoCall
    /\ NoneInFlight

NextOrder == CreateOrder \/ CreateMarketOrder

SpecOrder == InitOrder /\ [][NextOrder]_vars

\* Orders whose scaled amounts reach past u32::MAX (more than 4294.967295
\* tokens), on either outcome of the conversion. Amounts between 2^31 and
\* u32::MAX are left out: the model checker's integers end at 2^31 - 1.
LargeSizes == {Dec(2000, 0), Dec(4295, 0), Dec(5000, 0)}

InitWidth ==
    /\ TypesIdle
    /\ PriceIdle
    /\ AmountsIdle
    /\ new_args = NewArgs("ab", None, None)
    /\ Constructed
    /\ chain_id = 137
    /\ order_args \in [token_id : {"7"}, price : {Dec(4, 1), Dec(1, 0)}, size : LargeSizes,
                        side : Side]
    /\ expiration \in 0..MaxExpiration
    /\ extras = [fee_rate_bps |-> 0, nonce |-> 0, taker |-> ZERO_ADDRESS]
    /\ options \in [tick_size : {Some(Dec(1, 1)), Some(Dec(1, 2))},
                     neg_risk : {Some(FALSE)}]
    /\ u32_cast \in U32Cast
    /\ last_call = NoCall
    /\ prev_call = NoCall
    /\ NoneInFlight

SpecWidth == InitWidth /\ [][NextOrder]_vars

\* Every way of calling OrderBuilder::new, followed by orders that pass
\* every check
InitBuilder ==
    /\ TypesIdle
    /\ PriceIdle
    /\ AmountsIdle
    /\ new_args \in [signer : {"ab", "cd"},
                      sig_type : {None} \cup {Some(t) : t \in SignatureType},
                      funder : {None, Some("ab"), Some("cd")}]
    /\ Constructed
    /\ chain_id = 137
    /\ order_args \in [token_id : {"7"}, price : {Dec(55, 2)}, size : {Dec(15, 1)},
                        side : Side]
    /\ expiration \in 0..MaxExpiration
    /\ extras = [fee_rate_bps |-> 0, nonce |-> 0, taker |-> ZERO_ADDRESS]
    /\ options = [tick_size |-> Some(Dec(1, 2)), neg_risk |-> Some(FALSE)]
    /\ u32_cast = "panic"   \* never consulted: these amounts are far below u32::MAX
    /\ last_call = NoCall
    /\ prev_call = NoCall
    /\ NoneInFlight

SpecBuilder == InitBuilder /\ [][NextOrder]_vars

\* Orders that pass every check, on every rendering of their fields
InitRequest ==
    /\ TypesIdle
    /\ PriceIdle
    /\ AmountsIdle
    /\ new_args = NewArgs("ab", Some(PolyProxy), Some("cd"))
    /\ Constructed
    /\ chain_id = 137
    /\ order_args \in [token_id : {"7", "07"}, price : {Dec(55, 2)}, size : {Dec(15, 1)},
                        side : Side]
    /\ expiration \in 0..MaxExpiration
    /\ extras \in [fee_rate_bps : 0..MaxFee, nonce : 0..MaxNonce,
                    taker : {ZERO_ADDRESS, "0xcd"}]
    /\ options = [tick_size |-> Some(Dec(1, 2)), neg_risk |-> Some(FALSE)]
    /\ u32_cast = "panic"   \* never consulted: these amounts are far below u32::MAX
    /\ last_call = NoCall
    /\ prev_call = NoCall
    /\ NoneInFlight

SpecRequest == InitRequest /\ [][NextOrder]_vars

\* Two callers on one builder, each making one call
InitShared ==
    /\ TypesIdle
    /\ PriceIdle
    /\ AmountsIdle
    /\ new_args \in {NewArgs("ab", None, None), NewArgs("ab", Some(PolyProxy), Some("cd"))}
    /\ Constructed
    /\ chain_id \in {1, 137}
    /\ order_args \in [token_id : {"7", "x"}, price : {Dec(55, 2)}, size : {Dec(15, 1)},
                        side : {Buy}]
    /\ expiration \in 0..MaxExpiration
    /\ extras = [fee_rate_bps |-> 0, nonce |-> 0, taker |-> ZERO_ADDRESS]
    /\ options \in [tick_size : {Some(Dec(1, 1)), Some(Dec(5, 1))},
                     neg_risk : {None, Some(FALSE)}]
    /\ u32_cast = "panic"   \* never consulted: these amounts are far below u32::MAX
    /\ last_call = NoCall
    /\ prev_call = NoCall
    /\ NoneInFlight

NextShared == \E t \in Callers : Begin(t) \/ DrawSeed(t) \/ Finish(t)

SpecShared == InitShared /\ [][NextShared]_vars

(***************************************************************************)
(* types/market.rs: Market::ends_within. Instants and time deltas are      *)
(* counted in years; chrono's DateTime<Utc> ends before year 262144, and   *)
(* `DateTime + TimeDelta` panics when the sum is not a DateTime.           *)
(***************************************************************************)
DateTimeYears == 262143
FirstYear == 2024   \* the instants drawn are the years FirstYear..FirstYear + MaxYears
MaxYears == 3       \*   and the deltas -1..MaxYears years, and DateTimeYears years

Years == FirstYear..(FirstYear + MaxYears)
TimeDeltas == ((0 - 1)..MaxYears) \cup {DateTimeYears}

Panic(what) == [kind |-> "Panic", what |-> what]

\* now + time_delta
DateTimeAdd(now, time_delta) ==
    IF now + time_delta > DateTimeYears \/ now + time_delta < 0 - DateTimeYears
    THEN Panic("DateTime + TimeDelta overflowed")
    ELSE Ok(now + time_delta)

\* Market::ends_within(&self, time_delta), Utc::now() reading `now`
ends_within(end_date_iso, now, time_delta) ==
    IF end_date_iso.some
    THEN LET target_date == DateTimeAdd(now, time_delta) IN
         IF target_date.kind = "Panic" THEN target_date
         ELSE Returned(end_date_iso.v <= target_date.v)
    ELSE Returned(TRUE)

(***************************************************************************)
(* request/pagination.rs: PaginationParams                                 *)
(***************************************************************************)
INITIAL_CURSOR == "MA=="
END_CURSOR == "LTE="

PaginationParams_new == [next_cursor |-> None]
PaginationParams_default == PaginationParams_new
PaginationParams_with_cursor(cursor) == [next_cursor |-> Some(cursor)]
PaginationParams_initial == [next_cursor |-> Some(INITIAL_CURSOR)]

\* PaginationParams::to_query_params
to_query_params_skipping_empty(params) ==
    IF params.next_cursor.some /\ params.next_cursor.v # ""
    THEN <<<<"next_cursor", params.next_cursor.v>>>>
    ELSE <<>>
to_query_params(params) ==
    IF params.next_cursor.some THEN <<<<"next_cursor", params.next_cursor.v>>>> ELSE <<>>

(***************************************************************************)
(* The methods of the types as a state machine: a call is drawn at the     *)
(* start and made once.                                                    *)
(***************************************************************************)
FromU8Calls == [fn : {"from_u8"}, value : 0..U8Max]
ToU8Calls == [fn : {"to_u8"}, t : SignatureType]

FromU8 ==
    /\ type_result = NoResult
    /\ type_call.fn = "from_u8"
    /\ type_result' = Returned(SignatureTypeFromU8(type_call.value))
    /\ UNCHANGED type_call
    /\ UNCHANGED <<price_vars, amount_vars, order_vars>>

ToU8 ==
    /\ type_result = NoResult
    /\ type_call.fn = "to_u8"
    /\ type_result' = Returned(SignatureTypeToU8(type_call.t))
    /\ UNCHANGED type_call
    /\ UNCHANGED <<price_vars, amount_vars, order_vars>>

EndsWithinCalls ==
    [fn : {"ends_within"}, end_date_iso : {None} \cup {Some(y) : y \in Years},
     now : Years, time_delta : TimeDeltas]

EndsWithin ==
    /\ type_result = NoResult
    /\ type_call.fn = "ends_within"
    /\ type_result' = ends_within(type_call.end_date_iso, type_call.now, type_call.time_delta)
    /\ UNCHANGED type_call
    /\ UNCHANGED <<price_vars, amount_vars, order_vars>>

\* the cursors handed to with_cursor
Cursors == {"", INITIAL_CURSOR, END_CURSOR, "abc"}

ToQueryParamsCalls ==
    {[fn |-> "to_query_params", made_by |-> c, params |-> PaginationParams_new] :
        c \in {"new"}}
    \cup {[fn |-> "to_query_params", made_by |-> c, params |-> PaginationParams_default] :
        c \in {"default"}}
    \cup {[fn |-> "to_query_params", made_by |-> c, params |-> PaginationParams_initial] :
        c \in {"initial"}}
    \cup {[fn |-> "to_query_params", made_by |-> "with_cursor",
           params |-> PaginationParams_with_cursor(c)] : c \in Cursors}

ToQueryParams ==
    /\ type_result = NoResult
    /\ type_call.fn = "to_query_params"
    /\ type_result' = Returned(to_query_params(type_call.params))
    /\ UNCHANGED type_call
    /\ UNCHANGED <<price_vars, amount_vars, order_vars>>

InitTypes ==
    /\ PriceIdle
    /\ AmountsIdle
    /\ OrderIdle
    /\ \/ type_call \in FromU8Calls
       \/ type_call \in ToU8Calls
       \/ type_call \in EndsWithinCalls
       \/ type_call \in ToQueryParamsCalls
    /\ type_result = NoResult

NextTypes == FromU8 \/ ToU8 \/ EndsWithin \/ ToQueryParams

SpecTypes == InitTypes /\ [][NextTypes]_vars

Init == InitTypes \/ InitPrice \/ InitBook \/ InitAmounts \/ InitTick \/ InitOrder \/ InitWidth \/ InitBuilder \/ InitRequest \/ InitShared

Next == NextTypes \/ NextPrice \/ NextBook \/ NextAmounts \/ NextOrder \/ NextShared

Spec == Init /\ [][Next]_vars

(***************************************************************************)
(* Properties of calculate_market_price.                                   *)
(***************************************************************************)
PriceDone == price_result # NoResult

AllSizesPositive(ps) == \A i \in 1..Len(ps) : ps[i].size > 0
TotalSize(ps) == SumSeq([i \in 1..Len(ps) |-> ps[i].size], Len(ps))
PricesOf(ps) == {ps[i].price : i \in 1..Len(ps)}

\* Size offered at exactly price p, and at prices strictly better than p for
\* an order of side sd (lower for a Buy, higher for a Sell).
SizeAt(ps, p) ==
    SumSeq([i \in 1..Len(ps) |-> IF ps[i].price = p THEN ps[i].size ELSE 0], Len(ps))
SizeBetter(ps, sd, p) ==
    SumSeq([i \in 1..Len(ps) |->
              IF (sd = Buy /\ ps[i].price < p) \/ (sd = Sell /\ ps[i].price > p)
              THEN ps[i].size ELSE 0], Len(ps))

\* What a greedy walk in price order takes at price p: whatever is still
\* missing once every better price is exhausted, capped by the size at p.
TakenAt(ps, sd, n, p) == Min(Max(n - SizeBetter(ps, sd, p), 0), SizeAt(ps, p))
GreedyCost(ps, sd, n) ==
    SumSet([p \in PricesOf(ps) |-> p * TakenAt(ps, sd, n, p)], PricesOf(ps))

\* The levels of the test module, in hundredths: 10 @ 0.50 and 20 @ 0.55.
TestLevels == <<Level(50, 10), Level(55, 20)>>
TestLevelsReversed == <<Level(55, 20), Level(50, 10)>>

\* C1: for side BUY, levels with positive sizes and 0 < shares_to_match <=
\* total size, the call returns (sum of fill_i * price_i over the levels in
\* ascending price order, fill_i = min(remaining, size_i)) / shares_to_match;
\* 10 @ 0.50 and 20 @ 0.55 with 25 shares give 0.53.
C1_BuyWeightedPrice ==
    /\ (/\ PriceDone /\ side = Buy /\ AllSizesPositive(positions)
        /\ shares_to_match > 0 /\ shares_to_match <= TotalSize(positions))
       => price_result = [kind |-> "Ok",
                          num |-> GreedyCost(positions, Buy, shares_to_match),
                          den |-> shares_to_match]
    /\ calculate_market_price(TestLevels, 25, Buy) = [kind |-> "Ok", num |-> 53 * 25, den |-> 25]

C1_Witness ==
    /\ PriceDone /\ side = Buy
    /\ positions = <<Level(2, 2), Level(1, 1), Level(2, 1)>>
    /\ shares_to_match = 2
    /\ price_result = [kind |-> "Ok", num |-> 3, den |-> 2]

\* C2: for side SELL the levels are consumed highest price first, whatever
\* their order in the input; 10 @ 0.50 and 20 @ 0.55 with 25 shares give 0.54.
C2_SellWeightedPrice ==
    /\ (/\ PriceDone /\ side = Sell /\ AllSizesPositive(positions)
        /\ shares_to_match > 0 /\ shares_to_match <= TotalSize(positions))
       => price_result = [kind |-> "Ok",
                          num |-> GreedyCost(positions, Sell, shares_to_match),
                          den |-> shares_to_match]
    /\ calculate_market_price(TestLevels, 25, Sell) = [kind |-> "Ok", num |-> 54 * 25, den |-> 25]
    /\ calculate_market_price(TestLevelsReversed, 25, Sell)
         = calculate_market_price(TestLevels, 25, Sell)

C2_Witness ==
    /\ PriceDone /\ side = Sell
    /\ positions = <<Level(1, 2), Level(2, 1)>>
    /\ shares_to_match = 2
    /\ price_result = [kind |-> "Ok", num |-> 3, den |-> 2]

\* C3: when the total size of the levels is less than shares_to_match the
\* call fails with the not-enough-liquidity error carrying shares_to_match,
\* and returns no price.
C3_InsufficientLiquidity ==
    /\ (PriceDone /\ TotalSize(positions) < shares_to_match)
       => /\ price_result.kind = "Err"
          /\ price_result.error = "InvalidOrder"
          /\ price_result.text = "Not enough liquidity"
          /\ price_result.amount = shares_to_match
    /\ calculate_market_price(<<Level(50, 10)>>, 20, Buy).kind = "Err"

C3_Witness ==
    /\ PriceDone
    /\ positions = <<Level(1, 2), Level(2, 1)>>
    /\ shares_to_match = 4
    /\ price_result.kind = "Err"

(***************************************************************************)
(* Properties of the amount scaler. Values are compared as integer counts  *)
(* of 10^-TokenDecimals, the unit of the amounts returned.                 *)
(***************************************************************************)
InTokenUnits(d) == d.m * Pow10(TokenDecimals - d.s)
Step(dp) == Pow10(TokenDecimals - dp)

\* t is v cut at dp decimals: the multiple of the step at or just below v
IsTruncationOf(t, v, dp) ==
    /\ t % Step(dp) = 0
    /\ t <= v
    /\ v < t + Step(dp)

\* r is v rounded at dp decimals, a tie going toward zero: the multiple of
\* the step nearest to v, the lower one when v is half-way
IsRoundingOf(r, v, dp) ==
    /\ r % Step(dp) = 0
    /\ 2 * (v - r) <= Step(dp)
    /\ 2 * (r - v) < Step(dp)

RoundedPrice(price, cfg) ==
    LET v == InTokenUnits(price)
        below == v \div Step(cfg.price)
    IN  CHOOSE r \in {k * Step(cfg.price) : k \in below..(below + 1)} :
            IsRoundingOf(r, v, cfg.price)

\* a is shares * price rounded at the amount decimals, a tie going toward
\* zero; shares is a multiple of the size step and price of the price step
IsRoundedProduct(a, shares, price, cfg) ==
    LET n == (shares \div Step(cfg.size)) * (price \div Step(cfg.price))
        d == cfg.size + cfg.price      \* n counts 10^-d
    IN  /\ a % Step(cfg.amount) = 0
        /\ LET c == a \div Step(cfg.amount) IN
           IF cfg.amount >= d THEN c = n * Pow10(cfg.amount - d)
           ELSE LET f == Pow10(d - cfg.amount) IN
                /\ 2 * (n - c * f) <= f
                /\ 2 * (c * f - n) < f

LimitDone == amounts # NoResult /\ amounts.kind = "limit"

\* C9: for a BUY limit order takerAmount is the size truncated at
\* size_decimals, the price is rounded at price_decimals with ties toward
\* zero, and makerAmount is takerAmount times the rounded price, re-rounded
\* at amount_decimals with ties toward zero.
C9_BuyAmounts ==
    (LimitDone /\ amt_side = Buy) =>
        /\ IsTruncationOf(amounts.pair.taker, InTokenUnits(amt_size), round_config.size)
        /\ IsRoundedProduct(amounts.pair.maker, amounts.pair.taker,
                            RoundedPrice(amt_price, round_config), round_config)

\* 1.6 shares at 0.6 with no size and amount decimals: the size is cut to 1
\* and the amount 0.6 goes up to 1
C9_Witness ==
    /\ LimitDone /\ amt_side = Buy
    /\ round_config = [price |-> 1, size |-> 0, amount |-> 0]
    /\ amt_size = Dec(16, 1)
    /\ amt_price = Dec(6, 1)
    /\ amounts.pair = Pair(1000000, 1000000)

\* C10: for a SELL limit order makerAmount is the size truncated at
\* size_decimals and takerAmount is makerAmount times the rounded price,
\* corrected as for a BUY; the SELL pair is the BUY pair swapped.
C10_SellAmounts ==
    (LimitDone /\ amt_side = Sell) =>
        /\ IsTruncationOf(amounts.pair.maker, InTokenUnits(amt_size), round_config.size)
        /\ IsRoundedProduct(amounts.pair.taker, amounts.pair.maker,
                            RoundedPrice(amt_price, round_config), round_config)
        /\ LET buy == get_order_amounts(Buy, amt_size, amt_price, round_config)
           IN  amounts.pair = Pair(buy.taker, buy.maker)

\* 1.6 shares at 0.15 with one decimal each: the size is cut to 1.6, the
\* price tie goes down to 0.1 and the amount 0.16 goes up to 0.2
C10_Witness ==
    /\ LimitDone /\ amt_side = Sell
    /\ round_config = [price |-> 1, size |-> 1, amount |-> 1]
    /\ amt_size = Dec(16, 1)
    /\ amt_price = Dec(15, 2)
    /\ amounts.pair = Pair(1600000, 200000)

(***************************************************************************)
(* Properties of create_order and create_market_order.                     *)
(***************************************************************************)
Called == last_call # NoCall
Succeeded == Called /\ last_call.result.kind = "Ok"

\* C4: create_order fails with MissingField whenever options.tick_size or
\* options.neg_risk is absent, whatever the other arguments; the signer is
\* then not asked to sign and no SignedOrderRequest is returned.
C4_MissingField ==
    (/\ Called /\ last_call.op = "create_order"
     /\ (~options.tick_size.some \/ ~options.neg_risk.some))
    => /\ last_call.result.kind = "Err"
       /\ last_call.result.error = "MissingField"
       /\ last_call.signed = <<>>
       /\ \A i \in 1..Len(last_call.effects) : last_call.effects[i] # "sign_order_message"

\* every other argument is valid and only neg_risk is left out
C4_Witness ==
    /\ Called /\ last_call.op = "create_order"
    /\ options = [tick_size |-> Some(Dec(1, 1)), neg_risk |-> None]
    /\ chain_id = 137 /\ extras.taker = ZERO_ADDRESS /\ order_args.token_id = "7"
    /\ last_call.result = Err("MissingField", "neg_risk")

\* C5: every SignedOrderRequest returned by create_market_order has
\* expiration "0", and the Order that was signed has expiration 0.
C5_MarketExpirationZero ==
    (Succeeded /\ last_call.op = "create_market_order")
    => /\ last_call.result.v.expiration = "0"
       /\ Len(last_call.signed) = 1
       /\ last_call.signed[1].expiration = 0

C5_Witness ==
    /\ Succeeded /\ last_call.op = "create_market_order"
    /\ expiration = 1
    /\ last_call.result.v.expiration = "0"

\* C6 as claimed: an order has expiration 0 if and only if it is a market
\* order, so create_order never yields expiration 0.
C6_ExpirationZeroIffMarket ==
    Succeeded =>
        (last_call.signed[1].expiration = 0 <=> last_call.op = "create_market_order")

\* C6 as amended: create_market_order always yields expiration 0, and
\* create_order yields the expiration its caller passed, 0 included.
C6_ExpirationAsPassed ==
    Succeeded =>
        /\ Len(last_call.signed) = 1
        /\ last_call.op = "create_market_order" =>
              /\ last_call.signed[1].expiration = 0
              /\ last_call.result.v.expiration = to_string(0)
        /\ last_call.op = "create_order" =>
              /\ last_call.signed[1].expiration = expiration
              /\ last_call.result.v.expiration = to_string(expiration)

\* a limit order made with expiration 0
C6_Witness ==
    /\ Succeeded /\ last_call.op = "create_order"
    /\ expiration = 0
    /\ last_call.signed[1].expiration = 0
    /\ last_call.result.v.expiration = "0"

C8_NonceFromCaller ==
    Called =>
        /\ \A i \in 1..Len(last_call.signed) : last_call.signed[i].nonce = extras.nonce
        /\ Succeeded => last_call.result.v.nonce = to_string(extras.nonce)

\* nonce 1 with salt 0
C8_Witness ==
    /\ Succeeded
    /\ extras.nonce = 1
    /\ last_call.result.v.salt = 0
    /\ last_call.signed[1].nonce = 1
    /\ last_call.result.v.nonce = "1"

C12_OverflowIsInvalidParameter ==
    (/\ last_call # NoCall
     /\ options.tick_size.some /\ options.neg_risk.some
     /\ RoundConfigOf(options.tick_size.v).kind = "Ok"
     /\ WholeTokens(order_args.size) > U32MaxWhole)
    => /\ last_call.result.kind = "Err"
       /\ last_call.result.error = "InvalidParameter"

\* C13: when tick_size and neg_risk are both supplied but the tick size is
\* not one of the supported ones, create_order and create_market_order fail
\* with InvalidParameter before any contract-address lookup, salt generation
\* or signing.
TickSupported == \E t \in RoundingTicks : DecEq(t, options.tick_size.v)

C13_UnsupportedTick ==
    (Called /\ options.tick_size.some /\ options.neg_risk.some /\ ~TickSupported)
    => /\ last_call.result.kind = "Err"
       /\ last_call.result.error = "InvalidParameter"
       /\ last_call.effects = <<>>
       /\ last_call.signed = <<>>

\* tick size 0.5 on a chain the registry does not know: the tick size is
\* what the call reports
C13_Witness ==
    /\ Called /\ last_call.op = "create_market_order"
    /\ options.tick_size = Some(Dec(5, 1)) /\ options.neg_risk.some
    /\ chain_id = 1
    /\ last_call.result = Err("InvalidParameter", "Invalid tick_size")
    /\ prev_call # NoCall /\ prev_call.op = "create_order"

\* C14: create_order and create_market_order fail with Config when the
\* registry has no entry for (chainId, negRisk), or when the exchange address
\* of the entry is malformed; the signer is never asked. Stated for calls
\* that pass the option checks before the lookup.
RegistryEntry == get_contract_config(chain_id, options.neg_risk.v)

NoUsableExchange ==
    \/ RegistryEntry.kind = "Err"
    \/ ~AddressFromStr(RegistryEntry.v.exchange).some

C14_ConfigFailure ==
    (/\ Called
     /\ options.tick_size.some /\ options.neg_risk.some /\ TickSupported
     /\ NoUsableExchange)
    => /\ last_call.result.kind = "Err"
       /\ last_call.result.error = "Config"
       /\ last_call.signed = <<>>
       /\ \A i \in 1..Len(last_call.effects) : last_call.effects[i] = "get_contract_config"

\* the neg-risk entry of chain 80002 does not parse as an address
C14_Witness ==
    /\ Called /\ last_call.op = "create_order"
    /\ chain_id = 80002 /\ options.neg_risk = Some(TRUE)
    /\ options.tick_size = Some(Dec(1, 1))
    /\ last_call.result = Err("Config", "Invalid exchange address")
    /\ last_call.effects = <<"get_contract_config">>

\* C15: the signer is invoked at most once per order-creation call; if it
\* fails, the call returns that failure unchanged and no SignedOrderRequest;
\* the order is not signed again with a new salt.
SignCalls ==
    Cardinality({i \in 1..Len(last_call.effects) : last_call.effects[i] = "sign_order_message"})

SignerFailure ==
    sign_order_message(builder.signer, last_call.signed[1], chain_id, ZERO_ADDRESS, "fail")

C15_SignedOnce ==
    Called =>
       /\ SignCalls <= 1
       /\ Len(last_call.signed) = SignCalls
       /\ Cardinality({i \in 1..Len(last_call.effects) : last_call.effects[i] = "generate_seed"}) <= 1
       /\ (last_call.result.kind = "Ok") =>
             /\ SignCalls = 1
             /\ last_call.result.v.signature.order = last_call.signed[1]
             /\ last_call.result.v.salt = last_call.signed[1].salt
       /\ (last_call.result.kind = "Err" /\ SignCalls = 1) =>
             last_call.result = SignerFailure

\* a call whose signer failed, after a call that succeeded on the same
\* arguments
C15_Witness ==
    /\ Called /\ SignCalls = 1
    /\ last_call.result = Err("Signing", "signer failure")
    /\ Len(last_call.signed) = 1
    /\ prev_call # NoCall /\ prev_call.salt.some

\* C16 (calculate_market_price gives the same result for the same inputs,
\* whatever was called in between) has no formula here: the function is the
\* operator calculate_market_price, and two evaluations of one operator on
\* equal arguments agree in every model.

\* C17: calculate_market_price leaves the caller's list of price levels as
\* it was, in order and content, whether it returns a price or an error.
C17_PositionsUnchanged == [][positions' = positions]_vars

\* a BUY answered with a price, an unsorted list still in the caller's order
C17_Witness ==
    /\ PriceDone /\ side = Buy
    /\ price_result.kind = "Ok"
    /\ positions = <<Level(2, 1), Level(1, 1)>>
    /\ shares_to_match = 2

\* C18: OrderBookSummary::calculate_market_price walks the opposite side of
\* the book: a BUY is priced on the asks and a SELL on the bids, and the
\* other side has no influence on the result.
BookDone == price_result # NoResult /\ book # EmptyBook

\* what the side not walked is replaced with: nothing, or any single level
OtherSides == {<<>>} \cup {<<l>> : l \in PriceLevel}

C18_OppositeSide ==
    BookDone =>
       /\ side = Buy =>
            /\ price_result = calculate_market_price(book.asks, shares_to_match, Buy)
            /\ \A bids \in OtherSides :
                 price_result = OrderBookSummary_calculate_market_price(
                                    [book EXCEPT !.bids = bids], Buy, shares_to_match)
       /\ side = Sell =>
            /\ price_result = calculate_market_price(book.bids, shares_to_match, Sell)
            /\ \A asks \in OtherSides :
                 price_result = OrderBookSummary_calculate_market_price(
                                    [book EXCEPT !.asks = asks], Sell, shares_to_match)

\* a BUY of 1 share on a book asking 2 and bidding 1 is priced at 2
C18_Witness ==
    /\ BookDone /\ side = Buy /\ shares_to_match = 1
    /\ book = [bids |-> <<Level(1, 1)>>, asks |-> <<Level(2, 1)>>]
    /\ price_result.kind = "Ok"
    /\ price_result.num = 2 * price_result.den

\* C19: when a level at the best price (lowest for a BUY, highest for a
\* SELL) alone has size >= shares_to_match > 0, the result is exactly that
\* price; and the levels past the point where the remaining quantity reaches
\* zero have no influence: the result is the same without them.
IsBestPrice(ps, sd, p) ==
    /\ p \in PricesOf(ps)
    /\ \A q \in PricesOf(ps) : IF sd = Buy THEN p <= q ELSE p >= q

\* the price at which a walk in price order stops
IsStopPrice(ps, sd, n, p) ==
    /\ p \in PricesOf(ps)
    /\ SizeBetter(ps, sd, p) < n
    /\ n <= SizeBetter(ps, sd, p) + SizeAt(ps, p)

NotWorse(sd, p, q) == IF sd = Buy THEN q <= p ELSE q >= p
LevelsUpTo(ps, sd, p) == SelectSeq(ps, LAMBDA l : NotWorse(sd, p, l.price))

SizeOfPrefix(ps, k) == SumSeq([i \in 1..Len(ps) |-> ps[i].size], k)

C19_BestLevelSuffices ==
    (PriceDone /\ book = EmptyBook /\ shares_to_match > 0) =>
       /\ \A i \in 1..Len(positions) :
            (/\ IsBestPrice(positions, side, positions[i].price)
             /\ positions[i].size >= shares_to_match)
            => /\ price_result.kind = "Ok"
               /\ price_result.num = positions[i].price * price_result.den
       /\ \A p \in PricesOf(positions) :
            IsStopPrice(positions, side, shares_to_match, p)
            => price_result
                 = calculate_market_price(LevelsUpTo(positions, side, p), shares_to_match, side)
       /\ LET sorted == SortedCopy(positions, side) IN
          \A k \in 1..Len(sorted) :
            SizeOfPrefix(sorted, k) >= shares_to_match
            => price_result
                 = calculate_market_price(SubSeq(sorted, 1, k), shares_to_match, side)

\* 2 shares bought from a list whose second level asks 1 for 2 shares
C19_Witness ==
    /\ PriceDone /\ side = Buy /\ shares_to_match = 2
    /\ positions = <<Level(2, 2), Level(1, 2), Level(2, 1)>>
    /\ price_result = [kind |-> "Ok", num |-> 2, den |-> 2]

\* C20: an OrderBuilder created without a funder uses the signer's address
\* as funder, and one created without a signature type uses EOA; in every
\* order it produces, maker is the builder's funder, signer is the signer
\* capability's address and signatureType is the builder's signature type.
FunderGiven == IF new_args.funder.some THEN new_args.funder.v ELSE new_args.signer
SigTypeGiven == IF new_args.sig_type.some THEN new_args.sig_type.v ELSE Eoa

C20_BuilderIdentity ==
    /\ builder.funder = FunderGiven
    /\ builder.sig_type = SigTypeGiven
    /\ builder.signer = new_args.signer
    /\ Called =>
         /\ \A i \in 1..Len(last_call.signed) :
              /\ last_call.signed[i].maker = FunderGiven
              /\ last_call.signed[i].signer = new_args.signer
              /\ last_call.signed[i].signatureType = SignatureTypeToU8(SigTypeGiven)
         /\ last_call.result.kind = "Ok" =>
              /\ last_call.result.v.maker = to_checksum(FunderGiven)
              /\ last_call.result.v.signer = to_checksum(new_args.signer)
              /\ last_call.result.v.signature_type = SignatureTypeToU8(SigTypeGiven)

\* a builder made of a signer only: its order is made and signed by "cd"
\* as an EOA
C20_Witness ==
    /\ new_args = NewArgs("cd", None, None)
    /\ Succeeded
    /\ last_call.signed[1].maker = "cd"
    /\ last_call.signed[1].signer = "cd"
    /\ last_call.signed[1].signatureType = 0

\* C21: order-creation calls on one shared OrderBuilder are independent:
\* under any interleaving of their steps each call returns what it would
\* return run alone on its arguments with the clock reading, random draw
\* and signer answer it met, and the builder's signer, signature type and
\* funder are never modified.
RunAlone(t) ==
    LET c   == calls[t]
        env == [time |-> c.time, rng |-> c.rng, sign |-> c.sign]
    IN  IF c.op = "create_order"
        THEN create_order(builder, chain_id, ArgsOf(t), expiration, extras, options, env)
        ELSE create_market_order(builder, chain_id, ArgsOf(t), order_args.price, extras,
                                 options, env)

CallsIndependent ==
    \A t \in Callers : calls[t].pc = "done" => calls[t].result = RunAlone(t).result

C21_SharedBuilder == []CallsIndependent /\ [][builder' = builder]_vars

\* both callers are through, on different seeds, each with its own salt
C21_Witness ==
    /\ calls["a"].pc = "done" /\ calls["b"].pc = "done"
    /\ calls["a"].result.kind = "Ok" /\ calls["b"].result.kind = "Ok"
    /\ calls["a"].result.v.salt # calls["b"].result.v.salt
    /\ calls["a"].op # calls["b"].op

\* C22: SignatureType has the fixed numeric encoding EOA = 0, PolyProxy = 1,
\* PolyGnosisSafe = 2: from_u8(to_u8(t)) = Some(t) for every variant t, and
\* from_u8(v) = None for every v outside {0, 1, 2}.
TypeDone(fn) == type_call.fn = fn /\ type_result # NoResult

C22_SignatureTypeEncoding ==
    /\ TypeDone("to_u8") =>
         /\ type_result.v = (CASE type_call.t = Eoa -> 0
                               [] type_call.t = PolyProxy -> 1
                               [] type_call.t = PolyGnosisSafe -> 2)
         /\ SignatureTypeFromU8(type_result.v) = Some(type_call.t)
    /\ TypeDone("from_u8") =>
         /\ type_call.value \notin {0, 1, 2} => type_result.v = None
         /\ type_call.value \in {0, 1, 2} =>
              /\ type_result.v.some
              /\ SignatureTypeToU8(type_result.v.v) = type_call.value

\* PolyGnosisSafe is encoded as 2
C22_Witness ==
    /\ TypeDone("to_u8")
    /\ type_call.t = PolyGnosisSafe
    /\ type_result.v = 2

\* C23: Market::ends_within(delta) returns true when the market has no end
\* date, and otherwise returns true exactly when end_date <= now + delta; a
\* market whose end date is already past ends within every non-negative
\* delta, and the answer never goes from true to false as delta grows.
C23_EndsWithin ==
    TypeDone("ends_within") =>
       LET c == type_call IN
       /\ type_result.kind = "Returned"
       /\ ~c.end_date_iso.some => type_result.v = TRUE
       /\ c.end_date_iso.some => (type_result.v <=> c.end_date_iso.v <= c.now + c.time_delta)
       /\ (c.end_date_iso.some /\ c.end_date_iso.v < c.now /\ c.time_delta >= 0)
            => type_result.v = TRUE
       /\ \A d \in TimeDeltas :
            (d >= c.time_delta /\ type_result.v = TRUE)
            => ends_within(c.end_date_iso, c.now, d) = Returned(TRUE)

\* C24: PaginationParams::to_query_params returns at most one entry: none
\* when no cursor is set (new, default), and exactly one entry keyed
\* "next_cursor" carrying the stored cursor otherwise; initial() stores the
\* INITIAL_CURSOR constant "MA==".
C24_QueryParams ==
    /\ PaginationParams_initial.next_cursor = Some("MA==")
    /\ TypeDone("to_query_params") =>
         LET c == type_call
             q == type_result.v
         IN  /\ Len(q) <= 1
             /\ c.made_by \in {"new", "default"} => q = <<>>
             /\ c.made_by = "initial" => q = <<<<"next_cursor", "MA==">>>>
             /\ c.params.next_cursor.some =>
                  /\ Len(q) = 1
                  /\ q[1][1] = "next_cursor"
                  /\ q[1][2] = c.params.next_cursor.v

\* with_cursor("") still yields its one entry
C24_Witness ==
    /\ TypeDone("to_query_params")
    /\ type_call.made_by = "with_cursor"
    /\ type_call.params.next_cursor = Some("")
    /\ type_result.v = <<<<"next_cursor", "">>>>

\* C25 (as stated): the SignedOrderRequest of a successful call is the
\* signed Order re-rendered: every field of the request is the rendering of
\* the Order's field, the token id being the decimal string of the signed
\* tokenId.
RequestOf == last_call.result.v
SignedOf == last_call.signed[1]

RenderedFields ==
    /\ Len(last_call.signed) = 1
    /\ RequestOf.salt = SignedOf.salt
    /\ RequestOf.maker = to_checksum(SignedOf.maker)
    /\ RequestOf.signer = to_checksum(SignedOf.signer)
    /\ RequestOf.taker = to_checksum(SignedOf.taker)
    /\ RequestOf.maker_amount = to_string(SignedOf.makerAmount)
    /\ RequestOf.taker_amount = to_string(SignedOf.takerAmount)
    /\ RequestOf.expiration = to_string(SignedOf.expiration)
    /\ RequestOf.nonce = to_string(SignedOf.nonce)
    /\ RequestOf.fee_rate_bps = to_string(SignedOf.feeRateBps)
    /\ RequestOf.signature_type = SignedOf.signatureType
    /\ RequestOf.side \in {"BUY", "SELL"}
    /\ (RequestOf.side = "BUY") <=> (SignedOf.side = 0)
    /\ (RequestOf.side = "SELL") <=> (SignedOf.side = 1)

C25_RequestRendersOrder ==
    Succeeded =>
       /\ RenderedFields
       /\ RequestOf.token_id = to_string(SignedOf.tokenId)

\* C25 (amended): the request's salt, maker, signer, taker, amounts,
\* expiration, nonce, fee rate and signature type are the renderings of the
\* signed Order's values and its side string is "BUY" exactly for the signed
\* side 0 and "SELL" exactly for 1; its token id is the caller's string as
\* given, which parses in base 10 to the signed tokenId.
C25_RequestDescribesOrder ==
    Succeeded =>
       /\ RenderedFields
       /\ RequestOf.token_id = order_args.token_id
       /\ U256FromStrRadix10(RequestOf.token_id) = Some(SignedOf.tokenId)

\* a SELL order for token "07" with a taker, a nonce and a fee: token 7 is
\* signed, "07" is returned
C25_Witness ==
    /\ Succeeded
    /\ order_args.token_id = "07"
    /\ order_args.side = Sell
    /\ extras.taker = "0xcd"
    /\ extras.nonce = MaxNonce
    /\ extras.fee_rate_bps = MaxFee
    /\ SignedOf.tokenId = 7
    /\ SignedOf.side = 1
    /\ RequestOf.token_id = "07"
    /\ RequestOf.side = "SELL"
    /\ RequestOf.nonce = to_string(MaxNonce)

\* C26: for the same side, tick size and price, create_market_order with
\* amount a yields the (makerAmount, takerAmount) of create_order with size
\* a: for a BUY as for a SELL the amount is a share quantity, truncated at
\* size_decimals and multiplied by the rounded price.
MarketDone == amounts # NoResult /\ amounts.kind = "market"

C26_MarketAmounts ==
    MarketDone =>
       LET shares == IF amt_side = Buy THEN amounts.pair.taker ELSE amounts.pair.maker
           cash   == IF amt_side = Buy THEN amounts.pair.maker ELSE amounts.pair.taker
       IN  /\ amounts.pair = get_order_amounts(amt_side, amt_size, amt_price, round_config)
           /\ IsTruncationOf(shares, InTokenUnits(amt_size), round_config.size)
           /\ IsRoundedProduct(cash, shares, RoundedPrice(amt_price, round_config),
                               round_config)

\* a market BUY of 1.6 at 0.6 with no size and amount decimals: 1 share for
\* 1, as the limit order of size 1.6
C26_Witness ==
    /\ MarketDone /\ amt_side = Buy
    /\ round_config = [price |-> 1, size |-> 0, amount |-> 0]
    /\ amt_size = Dec(16, 1)
    /\ amt_price = Dec(6, 1)
    /\ amounts.pair = Pair(1000000, 1000000)
    /\ amounts.pair = get_order_amounts(Buy, amt_size, amt_price, round_config)

\* C27: calculate_market_price is total: for every list of levels and every
\* shares_to_match, zero against a non-empty list included, it returns a
\* price or an error and never divides by zero or aborts.
C27_Total ==
    PriceDone => price_result.kind \in {"Ok", "Err"}

\* C28: for levels with positive sizes and shares_to_match > 0, every price
\* returned lies between the lowest and the highest supplied price: a BUY
\* never prices below the lowest ask nor a SELL above the highest bid, and
\* neither leaves the range of the supplied prices.
C28_PriceWithinLevels ==
    (/\ PriceDone /\ book = EmptyBook
     /\ AllSizesPositive(positions) /\ shares_to_match > 0
     /\ price_result.kind = "Ok")
    => /\ price_result.den > 0
       /\ \E lo \in PricesOf(positions), hi \in PricesOf(positions) :
            /\ \A q \in PricesOf(positions) : lo <= q /\ q <= hi
            /\ lo * price_result.den <= price_result.num
            /\ price_result.num <= hi * price_result.den

\* a SELL of 2 into bids of 1 @ 1 and 1 @ 2 is priced at 1.5
C28_Witness ==
    /\ PriceDone /\ side = Sell
    /\ positions = <<Level(1, 1), Level(2, 1)>>
    /\ shares_to_match = 2
    /\ price_result = [kind |-> "Ok", num |-> 3, den |-> 2]

\* C29: the result of calculate_market_price does not depend on the order
\* in which the levels are supplied: every permutation of the input gives
\* the same result, also when several levels carry the same price.
Rearrangements ==
    [n \in 0..MaxLevels |->
        {f \in [1..n -> 1..n] : \A i, j \in 1..n : f[i] = f[j] => i = j}]

Rearranged(ps, f) == [i \in 1..Len(ps) |-> ps[f[i]]]

C29_OrderIndependent ==
    (PriceDone /\ book = EmptyBook) =>
       \A f \in Rearrangements[Len(positions)] :
          calculate_market_price(Rearranged(positions, f), shares_to_match, side)
            = price_result

\* two asks at the same price with different sizes ahead of a cheaper one:
\* the cheaper one is walked first, then the first of the two
C29_Witness ==
    /\ PriceDone /\ side = Buy
    /\ positions = <<Level(2, 1), Level(2, 2), Level(1, 1)>>
    /\ shares_to_match = 3
    /\ price_result = [kind |-> "Ok", num |-> 5, den |-> 3]
    /\ calculate_market_price(<<Level(2, 2), Level(1, 1), Level(2, 1)>>, 3, Buy)
         = price_result

\* C30: create_order and create_market_order check their inputs in a fixed
\* order and report the first failure only: missing tick_size, missing
\* neg_risk, unsupported tick size, Config error, salt generation, invalid
\* taker address, invalid token_id, and only then the signer.
SaltFailure == Err("SystemTime", "clock")
UpToSeed == <<"get_contract_config", "generate_seed">>

C30_FirstFailureOnly ==
    Called =>
       LET r == last_call.result
           asked == Len(last_call.signed)
       IN
       IF ~options.tick_size.some
       THEN r = Err("MissingField", "tick_size") /\ last_call.effects = <<>>
       ELSE IF ~options.neg_risk.some
       THEN r = Err("MissingField", "neg_risk") /\ last_call.effects = <<>>
       ELSE IF ~TickSupported
       THEN r = Err("InvalidParameter", "Invalid tick_size") /\ last_call.effects = <<>>
       ELSE IF NoUsableExchange
       THEN /\ r.kind = "Err" /\ r.error = "Config"
            /\ last_call.effects = <<"get_contract_config">>
       ELSE IF r = SaltFailure
       THEN last_call.effects = UpToSeed /\ asked = 0
       ELSE IF ~AddressFromStr(extras.taker).some
       THEN /\ r = Err("InvalidParameter", "Invalid taker address")
            /\ last_call.effects = UpToSeed /\ asked = 0
       ELSE IF ~U256FromStrRadix10(order_args.token_id).some
       THEN /\ r = Err("InvalidParameter", "Invalid token_id")
            /\ last_call.effects = UpToSeed /\ asked = 0
       ELSE /\ last_call.effects = UpToSeed \o <<"sign_order_message">>
            /\ asked = 1
            /\ r.kind = "Ok" \/ r = SignerFailure

\* taker and token id are both invalid and everything before them passes:
\* the taker is what the call reports
C30_Witness ==
    /\ Called /\ last_call.op = "create_market_order"
    /\ options.tick_size = Some(Dec(1, 1)) /\ options.neg_risk = Some(FALSE)
    /\ chain_id = 137
    /\ extras.taker = "0xzz" /\ order_args.token_id = "x"
    /\ last_call.result = Err("InvalidParameter", "Invalid taker address")
    /\ last_call.effects = UpToSeed

====
